---- MODULE Spec2Model ----
(***************************************************************************)
(* The wheel catalog browser of src/app.js: the selection state            *)
(* (currentVersion, filters, searchQuery), the four facet dropdowns, the   *)
(* rendered list with its count, and the copy button with its revert       *)
(* timers.                                                                 *)
(*                                                                         *)
(* JavaScript strings are sequences of one-character strings, so that      *)
(* toLowerCase, includes, startsWith and parseFloat are computed and not   *)
(* assumed.                                                                *)
(***************************************************************************)
EXTENDS Integers, Sequences, FiniteSets, TLC

VARIABLES
  flashAttn2,      \* the catalog of family 2 (static data, read by getWheels)
  flashAttn3,      \* the catalog of family 3
  currentVersion,  \* app.js:2
  filters,         \* app.js:3
  searchQuery,     \* app.js:4
  options,         \* the <option> values of the four <select> elements
  selected,        \* the .value of the four <select> elements
  searchBox,       \* the .value of the #search input
  activeBtn,       \* the version button that carries the class "active"
  count,           \* #count textContent
  cards,           \* the wheels shown as cards in #wheel-list
  emptyState,      \* #wheel-list shows the empty state and its clear button
  lastOp,          \* the handler that ran last
  now,             \* the clock, in milliseconds
  pendingWrites,   \* clipboard writes of copyCmd that have not settled
  clipboard,       \* the text on the system clipboard
  copied,          \* the copy button carries the class "copied"
  timers,          \* the deadlines of the pending revert timers, oldest first
  copies           \* the number of clicks on the copy button so far

uiVars == <<currentVersion, filters, searchQuery, options, selected, searchBox,
            activeBtn, count, cards, emptyState>>
copyVars == <<now, pendingWrites, clipboard, copied, timers, copies>>
vars == <<flashAttn2, flashAttn3, uiVars, lastOp, copyVars>>

----------------------------------------------------------------------------
(* Bounds *)

\* the longest catalog of family 2
MaxWheels == 2
\* the clicks on the copy button in one run
MaxCopies == 3
\* the clock stops here
MaxTime == 4000
\* the longest step of the clock
TickMs == 500

----------------------------------------------------------------------------
(* Strings *)

UpperCase == <<"A", "B", "C", "D", "E", "F", "G", "H", "I", "J", "K", "L", "M",
               "N", "O", "P", "Q", "R", "S", "T", "U", "V", "W", "X", "Y", "Z">>
LowerCase == <<"a", "b", "c", "d", "e", "f", "g", "h", "i", "j", "k", "l", "m",
               "n", "o", "p", "q", "r", "s", "t", "u", "v", "w", "x", "y", "z">>

toLowerChar(c) ==
  IF \E i \in 1..Len(UpperCase) : UpperCase[i] = c
  THEN LowerCase[CHOOSE i \in 1..Len(UpperCase) : UpperCase[i] = c]
  ELSE c

\* String.prototype.toLowerCase
toLowerCase(s) == [i \in 1..Len(s) |-> toLowerChar(s[i])]

\* String.prototype.includes: q occurs in s as a contiguous run
includes(s, q) ==
  \E i \in 0..(Len(s) - Len(q)) : \A j \in 1..Len(q) : s[i + j] = q[j]

\* String.prototype.startsWith
startsWith(s, p) ==
  Len(p) <= Len(s) /\ \A j \in 1..Len(p) : s[j] = p[j]

Digits == <<"0", "1", "2", "3", "4", "5", "6", "7", "8", "9">>
isDigit(c) == \E i \in 1..Len(Digits) : Digits[i] = c
digitValue(c) == (CHOOSE i \in 1..Len(Digits) : Digits[i] = c) - 1

RECURSIVE pow10(_)
pow10(n) == IF n = 0 THEN 1 ELSE 10 * pow10(n - 1)

\* the length of the longest run of digits of s that starts at position i
RECURSIVE digitRun(_, _)
digitRun(s, i) ==
  IF i <= Len(s) /\ isDigit(s[i]) THEN 1 + digitRun(s, i + 1) ELSE 0

\* the number written by the digits s[i], ..., s[i + n - 1]
RECURSIVE digitsValue(_, _, _)
digitsValue(s, i, n) ==
  IF n = 0 THEN 0
  ELSE 10 * digitsValue(s, i, n - 1) + digitValue(s[i + n - 1])

\* parseFloat on strings without sign, blank or exponent: the longest prefix
\* digits [ "." digits ] as the fraction num / den, NaN when it has no digit.
\* ni digits, then nf digits after a point
floatOf(s, ni, nf) ==
  IF ni = 0 /\ nf = 0
  THEN [nan |-> TRUE, num |-> 0, den |-> 1]
  ELSE [nan |-> FALSE,
        num |-> digitsValue(s, 1, ni) * pow10(nf) + digitsValue(s, ni + 2, nf),
        den |-> pow10(nf)]

fractionOf(s, ni) ==
  floatOf(s, ni, IF ni + 1 <= Len(s) /\ s[ni + 1] = "."
                 THEN digitRun(s, ni + 2) ELSE 0)

parseFloat(s) == fractionOf(s, digitRun(s, 1))

ALL == <<"a", "l", "l">>
EMPTY == <<>>

----------------------------------------------------------------------------
(* The catalog: the wheels the page is loaded with *)

W2a == [v |-> <<"2", ".", "5">>, cuda |-> <<"1", "1", ".", "8">>,
        py |-> <<"3", ".", "9">>, torch |-> <<"2", ".", "1">>,
        os |-> <<"l", "i", "n", "u", "x", "_", "a", "a", "r", "c", "h", "6", "4">>]
W2b == [v |-> <<"2", ".", "6">>, cuda |-> <<"1", "2", ".", "4">>,
        py |-> <<"3", ".", "1", "0">>, torch |-> <<"2", ".", "1", "0">>,
        os |-> <<"w", "i", "n", "_", "a", "m", "d", "6", "4">>]
W3a == [v |-> <<"3", ".", "0", "B">>, cuda |-> <<"1", "2", ".", "4">>,
        py |-> <<"3", ".", "1", "0">>, torch |-> <<"2", ".", "1", "0">>,
        os |-> <<"l", "i", "n", "u", "x", "_", "a", "a", "r", "c", "h", "6", "4">>]

\* the wheels a catalog of family 2 is drawn from: their version starts with 2
Pool2 == {W2a, W2b}
\* the catalogs of family 3: their wheels' version starts with 3
Catalogs3 == {<<>>, <<W3a>>}

\* the sequences over S of length at most n
SeqsUpTo(S, n) == UNION {[1..k -> S] : k \in 0..n}

\* the data-version values of the version buttons
Scopes == {<<"2">>, <<"3">>, ALL}

\* the texts typed into the search box
Queries == {EMPTY, <<"B">>, <<"A", "A", "r", "c", "h", "6", "4">>}

Facets == {"cuda", "python", "pytorch", "platform"}

----------------------------------------------------------------------------
(* The page: the globals of app.js and the elements its handlers write *)

State ==
  [currentVersion |-> currentVersion, filters |-> filters,
   searchQuery |-> searchQuery, options |-> options, selected |-> selected,
   searchBox |-> searchBox, activeBtn |-> activeBtn, count |-> count,
   cards |-> cards, emptyState |-> emptyState]

platformLabels(os) ==
  CASE os = W2a.os -> "Linux ARM64"
    [] os = W2b.os -> "Windows"
    [] os = <<"l", "i", "n", "u", "x", "_", "x", "8", "6", "_", "6", "4">> -> "Linux x86_64"
    [] OTHER -> os

getWheels_swapped(s) ==
  IF s.currentVersion = <<"2">> THEN flashAttn3
  ELSE IF s.currentVersion = <<"3">> THEN flashAttn2
  ELSE flashAttn2 \o flashAttn3

getWheels(s) ==
  IF s.currentVersion = <<"2">> THEN flashAttn2
  ELSE IF s.currentVersion = <<"3">> THEN flashAttn3
  ELSE flashAttn2 \o flashAttn3

\* [...new Set(xs)]: the distinct elements in the order of their first occurrence
addNew(seen, x) ==
  IF \E i \in 1..Len(seen) : seen[i] = x THEN seen ELSE Append(seen, x)

RECURSIVE distinct(_)
distinct(xs) ==
  IF xs = <<>> THEN <<>>
  ELSE addNew(distinct(SubSeq(xs, 1, Len(xs) - 1)), xs[Len(xs)])

\* the comparator (a, b) => parseFloat(b) - parseFloat(a) says a goes before b;
\* a NaN result counts as 0
greater(fa, fb) ==
  ~fa.nan /\ ~fb.nan /\ fb.num * fa.den < fa.num * fb.den

sortsBefore(a, b) == greater(parseFloat(a), parseFloat(b))

insertAt(ys, x, k) == SubSeq(ys, 1, k - 1) \o <<x>> \o SubSeq(ys, k, Len(ys))

firstOf(before, n) ==
  IF before = {} THEN n + 1 ELSE CHOOSE i \in before : \A j \in before : i <= j

\* x put into the sorted ys, after every element it does not go before
insertSorted(ys, x) ==
  insertAt(ys, x, firstOf({i \in 1..Len(ys) : sortsBefore(x, ys[i])}, Len(ys)))

\* Array.prototype.sort with that comparator: stable
RECURSIVE sort(_)
sort(xs) ==
  IF xs = <<>> THEN <<>>
  ELSE insertSorted(sort(SubSeq(xs, 1, Len(xs) - 1)), xs[Len(xs)])

\* wheels.map(w => w[key])
pluck(wheels, key) == [i \in 1..Len(wheels) |-> wheels[i][key]]

getUnique_anyVersion(s, key) == sort(distinct(pluck(flashAttn2 \o flashAttn3, key)))

getUnique(s, key) == sort(distinct(pluck(getWheels(s), key)))

\* select.value after an assignment of v: v when an option has that value,
\* the empty string (no option selected) when none has
selectValue(opts, v) ==
  IF \E i \in 1..Len(opts) : opts[i] = v THEN v ELSE EMPTY

\* lines 55-58: each dropdown is set to the filter in force
withOptions(s, opts) ==
  [s EXCEPT !.options = opts,
            !.selected = [f \in Facets |-> selectValue(opts[f], s.filters[f])]]

populateFilters(s) ==
  withOptions(s, [cuda |-> <<ALL>> \o getUnique(s, "cuda"),
                  python |-> <<ALL>> \o getUnique(s, "py"),
                  pytorch |-> <<ALL>> \o getUnique(s, "torch"),
                  platform |-> <<ALL>> \o getUnique(s, "os")])

\* lines 68-72: the search text, lower-cased, occurs in a field
searchHit(w, q) ==
  includes(w.v, q) \/ includes(w.cuda, q) \/ includes(w.py, q)
  \/ includes(w.torch, q) \/ includes(toLowerCase(w.os), q)

filterWheels_searchFirst(s) ==
  LET keep(w) ==
        IF s.searchQuery # EMPTY THEN searchHit(w, toLowerCase(s.searchQuery))
        ELSE IF s.filters.cuda # ALL /\ w.cuda # s.filters.cuda THEN FALSE
        ELSE IF s.filters.python # ALL /\ w.py # s.filters.python THEN FALSE
        ELSE IF s.filters.pytorch # ALL /\ w.torch # s.filters.pytorch THEN FALSE
        ELSE IF s.filters.platform # ALL /\ w.os # s.filters.platform THEN FALSE
        ELSE TRUE
  IN  SelectSeq(getWheels(s), keep)

filterWheels_noPlatform(s) ==
  LET keep(w) ==
        IF s.filters.cuda # ALL /\ w.cuda # s.filters.cuda THEN FALSE
        ELSE IF s.filters.python # ALL /\ w.py # s.filters.python THEN FALSE
        ELSE IF s.filters.pytorch # ALL /\ w.torch # s.filters.pytorch THEN FALSE
        ELSE IF s.searchQuery # EMPTY THEN searchHit(w, toLowerCase(s.searchQuery))
        ELSE TRUE
  IN  SelectSeq(getWheels(s), keep)

filterWheels(s) ==
  LET keep(w) ==
        IF s.filters.cuda # ALL /\ w.cuda # s.filters.cuda THEN FALSE
        ELSE IF s.filters.python # ALL /\ w.py # s.filters.python THEN FALSE
        ELSE IF s.filters.pytorch # ALL /\ w.torch # s.filters.pytorch THEN FALSE
        ELSE IF s.filters.platform # ALL /\ w.os # s.filters.platform THEN FALSE
        ELSE IF s.searchQuery # EMPTY THEN searchHit(w, toLowerCase(s.searchQuery))
        ELSE TRUE
  IN  SelectSeq(getWheels(s), keep)

\* the card of a wheel: its badges (the commands, size and link are fixed text
\* around wheel.url and wheel.size, which no handler reads)
renderWheel(wheel) ==
  [v |-> wheel.v, cuda |-> wheel.cuda, torch |-> wheel.torch, py |-> wheel.py,
   os |-> wheel.os, platform |-> platformLabels(wheel.os),
   isV3 |-> startsWith(wheel.v, <<"3">>)]

\* wheels.map(renderWheel)
cardsOf(wheels) == [i \in 1..Len(wheels) |-> renderWheel(wheels[i])]

show_alwaysCards(s, wheels) ==
  [s EXCEPT !.count = Len(wheels), !.emptyState = FALSE, !.cards = cardsOf(wheels)]

\* lines 140-154
show(s, wheels) ==
  IF Len(wheels) = 0
  THEN [s EXCEPT !.count = Len(wheels), !.emptyState = TRUE, !.cards = <<>>]
  ELSE [s EXCEPT !.count = Len(wheels), !.emptyState = FALSE,
                 !.cards = cardsOf(wheels)]

render(s) == show(s, filterWheels(s))

NoFilters == [f \in Facets |-> ALL]

reset(s) ==
  [s EXCEPT !.filters = NoFilters, !.searchQuery = EMPTY, !.searchBox = EMPTY]

clearFilters_renderFirst(s) == reset(render(populateFilters(s)))

clearFilters(s) == render(populateFilters(reset(s)))

\* the DOMContentLoaded handler, lines 188-189
initialize(s) == render(populateFilters(s))

onVersionClick_resetsFilters(s, version) ==
  render(populateFilters(
    [s EXCEPT !.activeBtn = version, !.currentVersion = version,
              !.filters = NoFilters]))

onVersionClick(s, version) ==
  render(populateFilters(
    [s EXCEPT !.activeBtn = version, !.currentVersion = version]))

onSearchInput(s, value) ==
  render([s EXCEPT !.searchBox = value, !.searchQuery = value])

onCudaChange(s, value) ==
  render([s EXCEPT !.selected.cuda = value, !.filters.cuda = value])

onPythonChange(s, value) ==
  render([s EXCEPT !.selected.python = value, !.filters.python = value])

onPytorchChange(s, value) ==
  render([s EXCEPT !.selected.pytorch = value, !.filters.pytorch = value])

onPlatformChange(s, value) ==
  render([s EXCEPT !.selected.platform = value, !.filters.platform = value])

----------------------------------------------------------------------------
(* The filter page as a state machine *)

\* the page before DOMContentLoaded: the globals of lines 2-4 and the empty
\* elements of the document
Loaded ==
  [currentVersion |-> ALL, filters |-> NoFilters, searchQuery |-> EMPTY,
   options |-> [f \in Facets |-> <<ALL>>], selected |-> NoFilters,
   searchBox |-> EMPTY, activeBtn |-> ALL, count |-> 0, cards |-> <<>>,
   emptyState |-> FALSE]

Become(s) ==
  /\ currentVersion' = s.currentVersion
  /\ filters' = s.filters
  /\ searchQuery' = s.searchQuery
  /\ options' = s.options
  /\ selected' = s.selected
  /\ searchBox' = s.searchBox
  /\ activeBtn' = s.activeBtn
  /\ count' = s.count
  /\ cards' = s.cards
  /\ emptyState' = s.emptyState

CopyIdle ==
  /\ now = 0
  /\ pendingWrites = [b \in {"pip", "uv"} |-> 0]
  /\ clipboard = ""
  /\ copied = [b \in {"pip", "uv"} |-> FALSE]
  /\ timers = <<>>
  /\ copies = 0

Starts(s) ==
  /\ currentVersion = s.currentVersion
  /\ filters = s.filters
  /\ searchQuery = s.searchQuery
  /\ options = s.options
  /\ selected = s.selected
  /\ searchBox = s.searchBox
  /\ activeBtn = s.activeBtn
  /\ count = s.count
  /\ cards = s.cards
  /\ emptyState = s.emptyState

InitPage ==
  /\ Starts(initialize(Loaded))
  /\ lastOp = "DOMContentLoaded"

Init ==
  /\ flashAttn2 \in SeqsUpTo(Pool2, MaxWheels)
  /\ flashAttn3 \in Catalogs3
  /\ InitPage
  /\ CopyIdle

VersionClick ==
  \E version \in Scopes :
    /\ Become(onVersionClick(State, version))
    /\ lastOp' = "version"
    /\ UNCHANGED <<flashAttn2, flashAttn3, copyVars>>

\* an input event: the text of the box has changed
SearchInput ==
  \E value \in Queries :
    /\ value # searchBox
    /\ Become(onSearchInput(State, value))
    /\ lastOp' = "search"
    /\ UNCHANGED <<flashAttn2, flashAttn3, copyVars>>

\* a change event: the user picked another option of the dropdown
Picks(f) == {options[f][i] : i \in 1..Len(options[f])} \ {selected[f]}

CudaChange ==
  \E value \in Picks("cuda") :
    /\ Become(onCudaChange(State, value))
    /\ lastOp' = "filter"
    /\ UNCHANGED <<flashAttn2, flashAttn3, copyVars>>

PythonChange ==
  \E value \in Picks("python") :
    /\ Become(onPythonChange(State, value))
    /\ lastOp' = "filter"
    /\ UNCHANGED <<flashAttn2, flashAttn3, copyVars>>

PytorchChange ==
  \E value \in Picks("pytorch") :
    /\ Become(onPytorchChange(State, value))
    /\ lastOp' = "filter"
    /\ UNCHANGED <<flashAttn2, flashAttn3, copyVars>>

PlatformChange ==
  \E value \in Picks("platform") :
    /\ Become(onPlatformChange(State, value))
    /\ lastOp' = "filter"
    /\ UNCHANGED <<flashAttn2, flashAttn3, copyVars>>

\* the "Clear filters" button exists only inside the empty state (line 146)
ClearClick ==
  /\ emptyState
  /\ Become(clearFilters(State))
  /\ lastOp' = "clear"
  /\ UNCHANGED <<flashAttn2, flashAttn3, copyVars>>

Next ==
  \/ VersionClick
  \/ SearchInput
  \/ CudaChange
  \/ PythonChange
  \/ PytorchChange
  \/ PlatformChange
  \/ ClearClick

Spec == Init /\ [][Next]_vars

----------------------------------------------------------------------------
(* The copy buttons of one rendered card *)

\* the delay of the revert timer, line 174
RevertDelay == 1500

\* the two copy buttons of a card, lines 97 and 110
Buttons == {"pip", "uv"}

\* the command a button copies, lines 80-81
cmdOf(btn) == IF btn = "pip" THEN "pip install <url>" ELSE "uv pip install <url>"

CopyInit ==
  /\ flashAttn2 = <<W2a>>
  /\ flashAttn3 = <<>>
  /\ InitPage
  /\ now = 0
  /\ pendingWrites = [b \in Buttons |-> 0]
  /\ clipboard = ""
  /\ copied = [b \in Buttons |-> FALSE]
  /\ timers = <<>>
  /\ copies = 0

pageVars == <<flashAttn2, flashAttn3, uiVars, lastOp>>

\* copyCmd up to its await: the clipboard write is started
CopyClick ==
  \E btn \in Buttons :
    /\ cards # <<>>
    /\ copies < MaxCopies
    /\ copies' = copies + 1
    /\ pendingWrites' = [pendingWrites EXCEPT ![btn] = @ + 1]
    /\ UNCHANGED <<now, clipboard, copied, timers, pageVars>>

\* the write succeeded and copyCmd resumes, lines 160-174
WriteResolved ==
  \E btn \in Buttons :
    /\ pendingWrites[btn] > 0
    /\ pendingWrites' = [pendingWrites EXCEPT ![btn] = @ - 1]
    /\ clipboard' = cmdOf(btn)
    /\ copied' = [copied EXCEPT ![btn] = TRUE]
    /\ timers' = Append(timers, [btn |-> btn, due |-> now + RevertDelay])
    /\ UNCHANGED <<now, copies, pageVars>>

\* the write failed: the await throws and copyCmd ends
WriteRejected ==
  \E btn \in Buttons :
    /\ pendingWrites[btn] > 0
    /\ pendingWrites' = [pendingWrites EXCEPT ![btn] = @ - 1]
    /\ UNCHANGED <<now, clipboard, copied, timers, copies, pageVars>>

\* the callback of setTimeout, lines 167-173: the oldest timer that is due
TimerFires ==
  /\ timers # <<>>
  /\ Head(timers).due <= now
  /\ copied' = [copied EXCEPT ![Head(timers).btn] = FALSE]
  /\ timers' = Tail(timers)
  /\ UNCHANGED <<now, pendingWrites, clipboard, copies, pageVars>>

Min(a, b) == IF a <= b THEN a ELSE b

\* time passes, up to the next timer that is due
Tick ==
  /\ now < MaxTime
  /\ timers # <<>> => Head(timers).due > now
  /\ now' = IF timers = <<>> THEN Min(now + TickMs, MaxTime)
            ELSE Min(Min(now + TickMs, MaxTime), Head(timers).due)
  /\ UNCHANGED <<pendingWrites, clipboard, copied, timers, copies, pageVars>>

CopyNext ==
  \/ CopyClick
  \/ WriteResolved
  \/ WriteRejected
  \/ TimerFires
  \/ Tick

CopySpec == CopyInit /\ [][CopyNext]_vars

----------------------------------------------------------------------------
(* What the page shows, read off the catalog and the selection alone *)

Catalog == flashAttn2 \o flashAttn3

\* the version family of a wheel: the leading character of its version
FamilyOf(w) == <<Head(w.v)>>

\* the group the wheel at position i of the catalog was supplied in
GroupOf(i) == IF i <= Len(flashAttn2) THEN <<"2">> ELSE <<"3">>

InScope(i) == currentVersion = ALL \/ GroupOf(i) = currentVersion

\* the positions of the catalog in the current scope
ScopePositions == {i \in 1..Len(Catalog) : InScope(i)}

FieldOf(w, f) ==
  CASE f = "cuda" -> w.cuda
    [] f = "python" -> w.py
    [] f = "pytorch" -> w.torch
    [] f = "platform" -> w.os

\* w satisfies every facet filter that is not "all"
FacetsHold(w) == \A f \in Facets : filters[f] = ALL \/ FieldOf(w, f) = filters[f]

\* the lower-cased search text occurs in a field as the field is written
\* (the platform lower-cased)
TextOccurs(w) ==
  \E field \in {w.v, w.cuda, w.py, w.torch, toLowerCase(w.os)} :
    includes(field, toLowerCase(searchQuery))

\* the lower-cased search text occurs in a lower-cased field
TextOccursAnyCase(w) ==
  \E field \in {w.v, w.cuda, w.py, w.torch, w.os} :
    includes(toLowerCase(field), toLowerCase(searchQuery))

SameWheel(card, w) ==
  /\ card.v = w.v
  /\ card.cuda = w.cuda
  /\ card.py = w.py
  /\ card.torch = w.torch
  /\ card.os = w.os

\* a card of w is on the page
Shown(w) == \E i \in 1..Len(cards) : SameWheel(cards[i], w)

OptionSet(f) == {options[f][i] : i \in 1..Len(options[f])}

----------------------------------------------------------------------------
(* Claims *)

\* C1: whatever the facet filters and the search text, every wheel shown
\* belongs to the family of the version scope, the family read off the leading
\* character of its version; under scope "all" either family may be shown.
C1_ScopeFamily ==
  \A i \in 1..Len(cards) :
    /\ FamilyOf(cards[i]) \in {<<"2">>, <<"3">>}
    /\ currentVersion # ALL => FamilyOf(cards[i]) = currentVersion

C1_Witness ==
  /\ currentVersion = <<"2">>
  /\ flashAttn3 # <<>>
  /\ Len(cards) > 0
  /\ filters.cuda # ALL
  /\ searchQuery # EMPTY

\* C2 as claimed: with a search text, a wheel in scope whose fields contain the
\* text is shown whatever the facet filters are.
C2_SearchAlone ==
  searchQuery # EMPTY =>
    \A i \in ScopePositions : TextOccurs(Catalog[i]) => Shown(Catalog[i])

\* C2 as amended: with a search text, a wheel in scope is shown exactly when it
\* satisfies every facet filter that is not "all" and the lower-cased text
\* occurs in its version, cuda, python or torch field as written or in its
\* lower-cased platform: the search narrows the facet filters.
C2_SearchAndFacets ==
  searchQuery # EMPTY =>
    \A i \in ScopePositions :
      Shown(Catalog[i]) <=> (FacetsHold(Catalog[i]) /\ TextOccurs(Catalog[i]))

C2_Witness ==
  /\ searchQuery # EMPTY
  /\ Len(cards) > 0
  /\ \E i \in ScopePositions :
       /\ TextOccurs(Catalog[i])
       /\ ~FacetsHold(Catalog[i])
       /\ ~Shown(Catalog[i])

\* C4: with no search text, every wheel shown has each filtered facet equal to
\* the filter value, and every wheel in scope that satisfies all the facet
\* filters is shown, once for each of its places in the catalog.
C4_FacetEquality ==
  searchQuery = EMPTY =>
    /\ \A i \in 1..Len(cards) : FacetsHold(cards[i])
    /\ \A i \in ScopePositions : FacetsHold(Catalog[i]) => Shown(Catalog[i])
    /\ Len(cards) = Cardinality({i \in ScopePositions : FacetsHold(Catalog[i])})

C4_Witness ==
  /\ searchQuery = EMPTY
  /\ filters.platform # ALL
  /\ filters.cuda # ALL
  /\ Len(cards) > 0
  /\ Len(cards) < Cardinality(ScopePositions)

\* no wheel in scope passes the facet filters and the search
NoMatch ==
  \A i \in ScopePositions :
    ~(FacetsHold(Catalog[i]) /\ (searchQuery = EMPTY \/ TextOccurs(Catalog[i])))

\* C5: whenever no wheel matches, the count is zero and the empty state with
\* its clear button is shown; a clear from there keeps the version scope and
\* brings the count to the number of wheels of the catalog in that scope.
C5_EmptyStateAndClear ==
  /\ [](NoMatch => (count = 0 /\ emptyState /\ cards = <<>>))
  /\ [][(NoMatch /\ lastOp' = "clear") =>
          /\ currentVersion' = currentVersion
          /\ count' = Cardinality(ScopePositions)
          /\ Len(cards') = count']_vars

C5_Witness ==
  /\ lastOp = "clear"
  /\ currentVersion # ALL
  /\ count > 0
  /\ count = Cardinality(ScopePositions)

\* C6 as claimed: with a search text, a wheel in scope that satisfies the facet
\* filters is shown exactly when the lower-cased text occurs in the lower-cased
\* form of one of its five fields.
C6_CaseInsensitive ==
  searchQuery # EMPTY =>
    \A i \in ScopePositions :
      FacetsHold(Catalog[i]) =>
        (Shown(Catalog[i]) <=> TextOccursAnyCase(Catalog[i]))

\* C7: clearing twice gives the selection, the dropdowns, the count and the
\* cards that clearing once gives.
C7_ClearIdempotent == clearFilters(clearFilters(State)) = clearFilters(State)

C7_Witness ==
  /\ lastOp = "clear"
  /\ count > 0
  /\ currentVersion # ALL
  /\ clearFilters(State) = State

\* C8: a click on a version button leaves the facet filters and the search
\* text as they were, and afterwards a wheel is shown exactly when it passed
\* them before the click and its family is in the new scope.
C8_ScopeOnly ==
  [][lastOp' = "version" =>
       /\ filters' = filters
       /\ searchQuery' = searchQuery
       /\ searchBox' = searchBox
       /\ \A i \in 1..Len(Catalog) :
            Shown(Catalog[i])' <=>
              /\ FacetsHold(Catalog[i])
              /\ searchQuery = EMPTY \/ TextOccurs(Catalog[i])
              /\ InScope(i)']_vars

C8_Witness ==
  /\ lastOp = "version"
  /\ currentVersion = <<"3">>
  /\ flashAttn3 # <<>>
  /\ filters.cuda = W2a.cuda
  /\ \E i \in 1..Len(flashAttn2) : flashAttn2[i] = W2a
  /\ cards = <<>>

\* the dropdown of f offers "all" first and then each value of f among the
\* wheels in scope, once
OptionsOfScope(f) ==
  /\ options[f][1] = ALL
  /\ OptionSet(f) = {ALL} \cup {FieldOf(Catalog[i], f) : i \in ScopePositions}
  /\ Len(options[f]) = Cardinality(OptionSet(f))

\* C9: after every handler each dropdown offers exactly "all" and the distinct
\* values of its facet among the wheels in scope; a facet change and a search
\* input leave every dropdown as it was.
C9_Options ==
  /\ [](\A f \in Facets : OptionsOfScope(f))
  /\ [][lastOp' \in {"filter", "search"} => options' = options]_vars

C9_Witness ==
  /\ lastOp = "filter"
  /\ currentVersion = <<"3">>
  /\ Len(flashAttn2) > 1
  /\ flashAttn3 # <<>>
  /\ filters.cuda # ALL
  /\ Len(options.cuda) = 2

\* C10 as claimed: each facet filter in force is "all" or an option its
\* dropdown offers.
C10_FilterOffered == \A f \in Facets : filters[f] \in OptionSet(f)

\* C3 as claimed: while the revert timer of the latest click on a button has
\* not come due the button shows "copied": no timer of an earlier click
\* reverts it early, and it reverts once, RevertDelay after the latest click.
C3_SingleRevert ==
  \A b \in Buttons :
    (\E i \in 1..Len(timers) : timers[i].btn = b /\ timers[i].due > now)
      => copied[b]

====
